---------------------------- MODULE Spec2Model ----------------------------
(***************************************************************************)
(* Model of the two notebooks of pytorch-text (IMDB sentiment and AG News  *)
(* topic classification): vocabulary construction, the text and label      *)
(* pipelines, the batch Collator, and the train / evaluate / epoch loop.   *)
(***************************************************************************)
EXTENDS Integers, Sequences, FiniteSets, TLC

(***************************************************************************)
(* Bounds of the model.                                                    *)
(***************************************************************************)
\* most texts in the corpus the vocabulary is counted over
MaxCorpus == 2
\* most samples in one batch handed to the Collator
MaxBatch == 2
\* most samples of the training split whose labels are counted
MaxTrainLabels == 5
\* batches the training DataLoader yields in one epoch
NumTrainBatches == 5
\* samples per batch (BATCH_SIZE is 128 in the notebook)
BatchSize == 2
\* samples of the validation split and of the test split
NumValid == 1
NumTest == 1
\* batches between two log lines of train() (log_interval is 500 there)
log_interval == 2
\* largest gradient norm a backward pass leaves, in tenths
MaxGradNorm == 2
\* most samples of a dataloader handed to evaluate() in a cell of its own
MaxEvalSamples == 2
\* width of an embedding vector (hidden_neurons[0] is 64 in the notebook)
EmbedDim == 2

(***************************************************************************)
(* Inputs.  A text is a sequence of characters grouped into words and      *)
(* blanks: the words are kept whole, the blank " " is the separator the    *)
(* tokenizers split on.                                                    *)
(***************************************************************************)
Words == {"bad", "film", "great"}

Texts ==
  { <<>>,
    <<"bad", " ", "film">>,
    <<"great", " ", "film">> }

IMDBLabels == {"neg", "pos"}

\* the four AG News classes, 1 World 2 Sports 3 Business 4 Sci/Tec
NumAGClasses == 4

AGLabels == 1..NumAGClasses

Notebooks == {"IMDB", "AG_NEWS"}

DatasetLabels(nb) == IF nb = "IMDB" THEN IMDBLabels ELSE AGLabels

\* the (label, text) samples a dataset iterator of the notebook can yield
Samples(nb) == [label : DatasetLabels(nb), text : Texts]

\* sequences over S of length lo..hi
SeqsOf(S, lo, hi) == UNION { [1..n -> S] : n \in lo..hi }

VARIABLES
  pc,           \* position of the running cell
  \* text processing cells
  notebook,     \* which notebook's cells run
  train_texts,  \* the texts of the training split the vocabulary is built from
  counter,      \* collections.Counter of token occurrences
  vocab,        \* the Vocab object: [itos, stoi]
  batch,        \* the batch last handed to Collator.__call__
  labels,       \* returned labels tensor
  texts,        \* returned flattened token-id tensor
  offsets,      \* returned offsets tensor
  text_in,      \* the text last handed to TextPipeline.__call__
  ids_out,      \* the id list it returned
  \* model construction cell of the AG News notebook
  train_labels, \* the labels of the training split
  num_class,    \* len(set(labels)), the output width of the model
  label_in,     \* the label last handed to LabelPipeline.__call__, in a list
  class_id,     \* the class id it returned, in a list
  \* training cell and test cell of the AG News notebook
  epoch,          \* loop variable of the epoch loop
  idx,            \* batch index inside train()
  mode,           \* model.train() / model.eval()
  grad,           \* the parameters' .grad: backward passes summed, norm
  predited_label, \* forward output: how many rows of the batch are right
  loss,           \* whether the loss of this batch's prediction exists
  stepped,        \* the gradient the last optimizer.step() applied
  trace,          \* the calls made so far for the current batch
  total_correct,  \* running counters of train()
  total_count,
  printed,        \* the last line printed
  accu_val,       \* validation accuracy of the epoch
  total_accu,     \* best validation accuracy so far, None at first
  last_epoch,     \* scheduler.last_epoch: the number of scheduler.step() calls
  train_passes,   \* completed calls of train()
  valid_evals,    \* completed calls of evaluate(valid_dataloader, model)
  test_evals,     \* completed calls of evaluate(test_dataloader, model)
  opt_steps,      \* optimizer.step() calls of the current train() call
  best_seen,      \* best validation accuracy of the epochs that have ended
  lower_epochs,   \* epochs that ended with an accuracy below the earlier best
  accu_test,      \* accuracy on the held-out test split
  \* the model and a call of evaluate() on its own
  dataloader,     \* the batch sizes of the dataloader last handed to evaluate()
  weight,         \* model.embedding.weight, one row per id
  embedded        \* what self.embedding(text, offsets) returned

collVars == <<notebook, train_texts, counter, vocab, batch, labels, texts,
              offsets, text_in, ids_out>>

labelVars == <<train_labels, num_class, label_in, class_id>>

loopVars == <<epoch, accu_val, total_accu, last_epoch, train_passes,
              valid_evals, test_evals, accu_test, best_seen, lower_epochs>>

batchVars == <<idx, grad, predited_label, loss, stepped, trace,
               total_correct, total_count, opt_steps>>

trainVars == <<loopVars, batchVars, mode, printed>>

modelVars == <<dataloader, weight, embedded>>

vars == <<pc, collVars, labelVars, trainVars, modelVars>>

(***************************************************************************)
(* Tokenizers.                                                             *)
(***************************************************************************)
IsBlank(c) == c = " "

\* get_tokenizer('basic_english'): the list of word strings of the text
basic_english(text) == SelectSeq(text, LAMBDA c : ~IsBlank(c))

\* nlp.tokenizer: a Doc of Token objects, each carrying its string in .text
spacy_tokenizer(text) ==
  LET ws == SelectSeq(text, LAMBDA c : ~IsBlank(c))
  IN  [i \in 1..Len(ws) |-> [text |-> ws[i], i |-> i - 1]]

\* the strings the vocabulary cell counts for one text
CountedTokens(nb, text) ==
  IF nb = "IMDB"
    THEN LET doc == spacy_tokenizer(text)
         IN  [i \in 1..Len(doc) |-> doc[i].text]
    ELSE basic_english(text)

(***************************************************************************)
(* collections.Counter and Vocab(counter, min_freq=1).  A Counter is a     *)
(* dict: its keys in the order they were first counted, and their counts.  *)
(* The vocabulary reserves the first ids for the unknown and the padding   *)
(* token, and gives the tokens counted at least min_freq times the ids     *)
(* after them, most frequent first, ties in the order of encounter.        *)
(***************************************************************************)
EmptyCounter == [keys |-> <<>>, n |-> <<>>]

RECURSIVE CounterUpdate(_, _)
\* counter.update(tokens): add one per occurrence
CounterUpdate(cnt, tokens) ==
  IF tokens = <<>> THEN cnt
  ELSE LET w == Head(tokens)
           one == IF w \in DOMAIN cnt.n
                    THEN [keys |-> cnt.keys,
                          n    |-> [cnt.n EXCEPT ![w] = @ + 1]]
                    ELSE [keys |-> Append(cnt.keys, w),
                          n    |-> cnt.n @@ (w :> 1)]
       IN  CounterUpdate(one, Tail(tokens))

RECURSIVE CountCorpus(_, _, _)
\* counter = Counter(); for (label, text) in train_iter: counter.update(...)
CountCorpus(nb, corpus, cnt) ==
  IF corpus = <<>> THEN cnt
  ELSE CountCorpus(nb, Tail(corpus),
                   CounterUpdate(cnt, CountedTokens(nb, Head(corpus))))

min_freq == 1

UNK == "<unk>"

PAD == "<pad>"

\* the reserved tokens, placed first
Specials == <<UNK, PAD>>

\* where the token was first counted
Encounter(cnt, w) == CHOOSE i \in 1..Len(cnt.keys) : cnt.keys[i] = w

\* u is placed before w: by frequency, highest first, ties by encounter
PlacedBefore(cnt, u, w) ==
  \/ cnt.n[u] > cnt.n[w]
  \/ cnt.n[u] = cnt.n[w] /\ Encounter(cnt, u) < Encounter(cnt, w)

\* the tokens kept, in id order after the specials
SortedKept(cnt, minf) ==
  LET kept == { w \in DOMAIN cnt.n : cnt.n[w] >= minf }
      rank(w) == Cardinality({ u \in kept : PlacedBefore(cnt, u, w) })
  IN  [i \in 1..Cardinality(kept) |-> CHOOSE w \in kept : rank(w) = i - 1]

Itos(cnt, minf) == Specials \o SortedKept(cnt, minf)

\* stoi: token -> index in itos, counted from 0
Stoi(itos) ==
  [tok \in { itos[i] : i \in 1..Len(itos) } |->
     (CHOOSE i \in 1..Len(itos) : itos[i] = tok) - 1]

Vocab(cnt, minf) ==
  LET itos == Itos(cnt, minf)
  IN  [itos |-> itos, stoi |-> Stoi(itos)]

\* mutant: min_freq=2
BuildVocabMinFreqTwo(cnt) == Vocab(cnt, min_freq + 1)

\* vocab = Vocab(counter, min_freq=1)
BuildVocab(cnt) == Vocab(cnt, min_freq)

\* vocab[token]: the token's id, the id of <unk> for a token not in stoi
VocabGetItem(v, token) ==
  IF token \in DOMAIN v.stoi THEN v.stoi[token] ELSE v.stoi[UNK]

\* len(vocab)
VocabLen(v) == Len(v.itos)

(***************************************************************************)
(* TextPipeline, LabelPipeline.                                            *)
(***************************************************************************)
\* mutant: tokens that are not in the vocabulary are skipped
TextPipelineSkipUnseen(nb, v, text) ==
  LET toks == SelectSeq(CountedTokens(nb, text),
                        LAMBDA w : w \in DOMAIN v.stoi)
  IN  [i \in 1..Len(toks) |-> v.stoi[toks[i]]]

TextPipeline(nb, v, text) ==
  IF nb = "IMDB"
    THEN LET doc == spacy_tokenizer(text)
         IN  [i \in 1..Len(doc) |-> VocabGetItem(v, doc[i].text)]
    ELSE LET toks == basic_english(text)
         IN  [i \in 1..Len(toks) |-> VocabGetItem(v, toks[i])]

\* mutant: the IMDB test is inverted
LabelPipelineInverted(nb, label) ==
  IF nb = "IMDB"
    THEN (IF label = "neg" THEN 1 ELSE 0)
    ELSE label - 1

\* mutant: the AG News label is not shifted to start at 0
LabelPipelineNoShift(nb, label) ==
  IF nb = "IMDB"
    THEN (IF label = "neg" THEN 0 ELSE 1)
    ELSE label

\* int(label) - 1 in the AG News notebook, whose labels are the integers 1..4
LabelPipeline(nb, label) ==
  IF nb = "IMDB"
    THEN (IF label = "neg" THEN 0 ELSE 1)
    ELSE label - 1

(***************************************************************************)
(* Collator.__call__.                                                      *)
(***************************************************************************)
RECURSIVE Cumsum(_)
\* tensor.cumsum(dim=0)
Cumsum(s) ==
  IF s = <<>> THEN <<>>
  ELSE LET n    == Len(s)
           init == Cumsum(SubSeq(s, 1, n - 1))
       IN  Append(init, (IF n = 1 THEN 0 ELSE init[n - 1]) + s[n])

RECURSIVE Cat(_)
\* torch.cat of a non-empty list of 1-D tensors
Cat(ts) == IF ts = <<>> THEN <<>> ELSE Head(ts) \o Cat(Tail(ts))

\* mutant: the length of the raw text is recorded, not of the processed text
CollateLoopRawLen(nb, v, b) ==
  LET processed == [i \in 1..Len(b) |-> TextPipeline(nb, v, b[i].text)]
  IN  [labels  |-> [i \in 1..Len(b) |-> LabelPipeline(nb, b[i].label)],
       texts   |-> processed,
       offsets |-> <<0>> \o [i \in 1..Len(b) |-> Len(b[i].text)]]

\* the three lists after the for loop of Collator.__call__
CollateLoop(nb, v, b) ==
  LET processed == [i \in 1..Len(b) |-> TextPipeline(nb, v, b[i].text)]
  IN  [labels  |-> [i \in 1..Len(b) |-> LabelPipeline(nb, b[i].label)],
       texts   |-> processed,
       offsets |-> <<0>> \o [i \in 1..Len(b) |-> Len(processed[i])]]

\* mutant: the last length is not dropped
CollateOffsetsNoDrop(lists) == Cumsum(lists.offsets)

\* mutant: the leading 0 is dropped instead of the last length
CollateOffsetsShifted(lists) == Cumsum(Tail(lists.offsets))

\* offsets = torch.tensor(offsets[:-1]).cumsum(dim=0)
CollateOffsets(lists) ==
  Cumsum(SubSeq(lists.offsets, 1, Len(lists.offsets) - 1))

\* texts = torch.cat(texts)
CollateTexts(lists) == Cat(lists.texts)

NoTensor == <<-1>>

\* no dataloader has been handed to evaluate()
NoLoader == <<-1>>

\* Python's None, where an accuracy (a pair) or a one-element list can stand
None == <<>>

\* a name that is not bound yet, where a record can stand
Unbound == [unbound |-> TRUE]

\* the cells of the label pipeline have not run
LabelsIdle ==
  /\ train_labels = <<>>
  /\ num_class = 0
  /\ label_in = None
  /\ class_id = None

\* the training cell has not run
TrainIdle ==
  /\ epoch = 0
  /\ idx = 0
  /\ mode = "train"
  /\ grad = Unbound
  /\ predited_label = Unbound
  /\ loss = Unbound
  /\ stepped = Unbound
  /\ trace = <<>>
  /\ total_correct = 0
  /\ total_count = 0
  /\ printed = Unbound
  /\ accu_val = None
  /\ total_accu = None
  /\ last_epoch = 0
  /\ train_passes = 0
  /\ valid_evals = 0
  /\ test_evals = 0
  /\ accu_test = None
  /\ opt_steps = 0
  /\ best_seen = None
  /\ lower_epochs = 0

\* no Collator or TextPipeline call is under way
CallsIdle ==
  /\ batch = <<>>
  /\ labels = NoTensor
  /\ texts = NoTensor
  /\ offsets = NoTensor
  /\ text_in = <<>>
  /\ ids_out = NoTensor
  /\ dataloader = NoLoader
  /\ weight = None
  /\ embedded = None

\* the vocabulary cell has run over some training corpus
Init ==
  /\ notebook \in Notebooks
  /\ train_texts \in SeqsOf(Texts, 0, MaxCorpus)
  /\ counter = CountCorpus(notebook, train_texts, EmptyCounter)
  /\ vocab = BuildVocab(counter)
  /\ pc = "idle"
  /\ CallsIdle
  /\ LabelsIdle
  /\ TrainIdle

RECURSIVE ChunkSizes(_, _)
\* the sizes of the batches a DataLoader makes of n samples
ChunkSizes(n, b) ==
  IF n = 0 THEN <<>>
  ELSE IF n <= b THEN <<n>> ELSE <<b>> \o ChunkSizes(n - b, b)

RECURSIVE EvalLoop(_, _, _)
\* evaluate(): the counters after the loop over the batches, each batch
\* adding its size and any number of right predictions
EvalLoop(sizes, correct, count) ==
  IF sizes = <<>> THEN { <<correct, count>> }
  ELSE UNION { EvalLoop(Tail(sizes), correct + c, count + Head(sizes)) :
                 c \in 0..Head(sizes) }

\* mutant: the quotient is returned whatever total_count is
EvaluateReturnsUnchecked(sizes) == EvalLoop(sizes, 0, 0)

\* the values evaluate() can return; a total_count of 0 is a division by zero
EvaluateReturns(sizes) ==
  { r \in EvalLoop(sizes, 0, 0) : r[2] # 0 }

EvaluateRaises(sizes) == \E r \in EvalLoop(sizes, 0, 0) : r[2] = 0

\* the dataloaders evaluate() is handed in a cell of its own: a DataLoader
\* over 0..MaxEvalSamples samples
Dataloaders == { ChunkSizes(n, BatchSize) : n \in 0..MaxEvalSamples }

\* a batch of one sample whose text is one token
TokenBatches(nb) ==
  { << [label |-> l, text |-> <<w>>] >> : w \in Words, l \in DatasetLabels(nb) }

\* the batches Collator.__call__ is handed
Batches(nb) == SeqsOf(Samples(nb), 0, MaxBatch) \cup TokenBatches(nb)

\* mutant: the two reserved tokens are left out of the count
VocabSizeCounted(v) == VocabLen(v) - Len(Specials)

\* vocab_size = len(vocab)
VocabSize(v) == VocabLen(v)

\* the tables init_weights() can leave in nn.EmbeddingBag(vocab_size,
\* hidden_neurons[0]): row id + 1 is the vector of id, the uniform values
\* are integers here
EmbeddingTables(vocab_size) ==
  { [r \in 1..vocab_size |-> [k \in 1..EmbedDim |-> r * k - 3]],
    [r \in 1..vocab_size |-> [k \in 1..EmbedDim |-> k - r * r]] }

RECURSIVE VecSum(_, _)
\* the rows of w of the ids, added up
VecSum(w, ids) ==
  IF ids = <<>> THEN [k \in 1..EmbedDim |-> 0]
  ELSE [k \in 1..EmbedDim |-> w[Head(ids) + 1][k] + VecSum(w, Tail(ids))[k]]

\* the mean of the rows of a bag, each coordinate as the pair
\* <<numerator, denominator>>; a bag without ids gives zeros
BagMean(w, ids) ==
  LET n == IF ids = <<>> THEN 1 ELSE Len(ids)
  IN  [k \in 1..EmbedDim |-> <<VecSum(w, ids)[k], n>>]

\* nn.EmbeddingBag in its default mode "mean": bag i is the slice
\* text[offs[i] : offs[i + 1]], the last bag runs to the end of text
EmbeddingBag(w, text, offs) ==
  [i \in 1..Len(offs) |->
     BagMean(w, SubSeq(text, offs[i] + 1,
                       IF i = Len(offs) THEN Len(text) ELSE offs[i + 1]))]

\* mutant: the offsets are not handed on, the buffer is one bag
ForwardEmbeddedNoOffsets(w, text, offs) == EmbeddingBag(w, text, <<0>>)

\* embedded = self.embedding(text, offsets)
ForwardEmbedded(w, text, offs) == EmbeddingBag(w, text, offs)

\* collator(batch) on a batch the DataLoader drew; torch.cat raises on an
\* empty list of tensors
Collate(b) ==
  /\ pc = "idle"
  /\ batch' = b
  /\ text_in' = <<>>
  /\ ids_out' = NoTensor
  /\ LET lists == CollateLoop(notebook, vocab, b)
     IN  IF lists.texts = <<>>
           THEN /\ pc' = "raised"
                /\ labels' = NoTensor
                /\ texts' = NoTensor
                /\ offsets' = NoTensor
           ELSE /\ pc' = "collated"
                /\ labels' = lists.labels
                /\ offsets' = CollateOffsets(lists)
                /\ texts' = CollateTexts(lists)
  /\ UNCHANGED <<notebook, train_texts, counter, vocab>>
  /\ UNCHANGED <<labelVars, trainVars, modelVars>>

\* TextPipeline(vocab, tokenizer)(text) on its own
Encode(t) ==
  /\ pc = "idle"
  /\ pc' = "encoded"
  /\ text_in' = t
  /\ ids_out' = TextPipeline(notebook, vocab, t)
  /\ batch' = <<>>
  /\ labels' = NoTensor
  /\ texts' = NoTensor
  /\ offsets' = NoTensor
  /\ UNCHANGED <<notebook, train_texts, counter, vocab>>
  /\ UNCHANGED <<labelVars, trainVars, modelVars>>

\* the model cell builds a model, init_weights() fills its embedding table,
\* and forward() looks the collated batch up: an id without a row in the
\* table is an index error
Embed ==
  /\ pc = "collated"
  /\ notebook = "AG_NEWS"
  /\ \E w \in EmbeddingTables(VocabSize(vocab)) :
       /\ weight' = w
       /\ IF /\ \A i \in 1..Len(texts) : texts[i] + 1 \in 1..Len(w)
             /\ \A i \in 1..Len(offsets) : offsets[i] \in 0..Len(texts)
            THEN /\ embedded' = ForwardEmbedded(w, texts, offsets)
                 /\ pc' = "embedded"
            ELSE /\ embedded' = NoTensor
                 /\ pc' = "raised"
  /\ UNCHANGED <<collVars, labelVars, trainVars, dataloader>>

\* evaluate(dataloader, model) in a cell of its own
Evaluate(dl) ==
  /\ pc = "idle"
  /\ notebook = "AG_NEWS"
  /\ mode' = "eval"
  /\ dataloader' = dl
  /\ \/ /\ \E r \in EvaluateReturns(dl) : accu_val' = r
        /\ pc' = "evaluated"
     \/ /\ EvaluateRaises(dl)
        /\ pc' = "raised"
        /\ UNCHANGED accu_val
  /\ UNCHANGED <<epoch, total_accu, last_epoch, train_passes, valid_evals,
                 test_evals, accu_test, best_seen, lower_epochs>>
  /\ UNCHANGED <<batchVars, printed, collVars, labelVars, weight, embedded>>

\* the call has returned (or stopped on the exception) and its values are
\* dropped; the next call starts with fresh locals and a model the model
\* cell has built anew (a new module is in training mode)
NextCall ==
  /\ pc \in {"collated", "encoded", "embedded", "evaluated", "raised"}
  /\ pc' = "idle"
  /\ batch' = <<>>
  /\ labels' = NoTensor
  /\ texts' = NoTensor
  /\ offsets' = NoTensor
  /\ text_in' = <<>>
  /\ ids_out' = NoTensor
  /\ dataloader' = NoLoader
  /\ weight' = None
  /\ embedded' = None
  /\ mode' = "train"
  /\ accu_val' = None
  /\ UNCHANGED <<notebook, train_texts, counter, vocab>>
  /\ UNCHANGED <<epoch, total_accu, last_epoch, train_passes, valid_evals,
                 test_evals, accu_test, best_seen, lower_epochs>>
  /\ UNCHANGED <<batchVars, printed, labelVars>>

Next ==
  \/ \E b \in Batches(notebook) : Collate(b)
  \/ \E t \in Texts : Encode(t)
  \/ Embed
  \/ \E dl \in Dataloaders : Evaluate(dl)
  \/ NextCall

Spec == Init /\ [][Next]_vars

(***************************************************************************)
(* Properties of collation and of the vocabulary.                          *)
(***************************************************************************)
\* number of token ids text_pipeline produces for sample i of the batch
TokenCount(i) == Len(TextPipeline(notebook, vocab, batch[i].text))

RECURSIVE SumTo(_)
\* token counts of samples 1..k of the batch, added up
SumTo(k) == IF k = 0 THEN 0 ELSE SumTo(k - 1) + TokenCount(k)

\* where the span of sample i ends in the flattened buffer
SpanEnd(i) == IF i = Len(batch) THEN Len(texts) ELSE offsets[i + 1]

\* C1: after Collator.__call__ on a non-empty batch (either notebook) there
\* are as many offsets as samples, and the last offset plus the number of
\* token ids of the last sample is the length of the flattened buffer.
C1_OffsetsCountAndTotal ==
  pc = "collated" =>
    /\ Len(batch) > 0
    /\ Len(offsets) = Len(batch)
    /\ offsets[Len(offsets)] + TokenCount(Len(batch)) = Len(texts)

C1_Witness ==
  /\ pc = "collated"
  /\ Len(batch) = MaxBatch
  /\ offsets[Len(offsets)] > 0
  /\ Len(texts) > offsets[Len(offsets)]

\* C2: collation neither truncates nor pads: offsets[0] = 0, each offset is
\* the sum of the token counts of the samples before it, and the slice of the
\* buffer from a sample's offset to the next offset (the end of the buffer for
\* the last sample) is the id sequence text_pipeline gives for its text.
C2_SlicesAreSamples ==
  pc = "collated" =>
    /\ offsets[1] = 0
    /\ \A i \in 1..Len(batch) : offsets[i] = SumTo(i - 1)
    /\ Len(texts) = SumTo(Len(batch))
    /\ \A i \in 1..Len(batch) :
         SubSeq(texts, offsets[i] + 1, SpanEnd(i))
           = TextPipeline(notebook, vocab, batch[i].text)

C2_Witness ==
  /\ pc = "collated"
  /\ Len(batch) >= 2
  /\ \A i \in 1..Len(batch) : TokenCount(i) > 0
  /\ \E i \in 1..Len(texts) : texts[i] # texts[1]

\* C3 as stated: the offsets are strictly increasing whatever the token
\* counts of the texts.
C3_StrictlyIncreasing ==
  pc = "collated" =>
    \A i \in 1..(Len(offsets) - 1) : offsets[i] < offsets[i + 1]

\* C3 amended: the offsets never decrease, and offsets[i] < offsets[i+1]
\* exactly when sample i has at least one token; a sample whose text has no
\* token has the same offset as the sample after it.
C3_NonDecreasing ==
  pc = "collated" =>
    \A i \in 1..(Len(offsets) - 1) :
      /\ offsets[i] <= offsets[i + 1]
      /\ (offsets[i] < offsets[i + 1]) <=> (TokenCount(i) > 0)

C3_Witness ==
  /\ pc = "collated"
  /\ Len(batch) >= 2
  /\ TokenCount(1) = 0
  /\ offsets[1] = offsets[2]
  /\ TokenCount(2) > 0

\* the token strings of the text handed to TextPipeline
InTokens == CountedTokens(notebook, text_in)

\* the tokens that occur in the training corpus
CorpusTokens ==
  { w \in Words : \E k \in 1..Len(train_texts) :
                    \E j \in 1..Len(train_texts[k]) : train_texts[k][j] = w }

\* the id of the unknown token
UnkId == vocab.stoi[UNK]

\* C4: a token absent from the vocabulary built from the training corpus is
\* looked up to the one unknown-token id, without failing, so that
\* TextPipeline.__call__ returns one id per token of any text.
C4_UnseenToUnk ==
  pc = "encoded" =>
    /\ Len(ids_out) = Len(InTokens)
    /\ \A i \in 1..Len(InTokens) :
         InTokens[i] \notin CorpusTokens => ids_out[i] = UnkId

C4_Witness ==
  /\ pc = "encoded"
  /\ \E i \in 1..Len(InTokens) : InTokens[i] \notin CorpusTokens
  /\ \E i \in 1..Len(InTokens) : InTokens[i] \in CorpusTokens

\* the batch of the end-to-end scenario
ScenarioBatch ==
  << [label |-> "neg", text |-> <<"bad", " ", "film">>],
     [label |-> "pos", text |-> <<"great", " ", "film">>] >>

\* C6: in the IMDB notebook the batch [("neg","bad film"),
\* ("pos","great film")] collates to labels [0,1], a flattened id sequence of
\* length 4 and offsets [0,2].
C6_Scenario ==
  (pc = "collated" /\ notebook = "IMDB" /\ batch = ScenarioBatch) =>
    /\ labels = <<0, 1>>
    /\ Len(texts) = 4
    /\ offsets = <<0, 2>>

C6_Witness ==
  /\ pc = "collated"
  /\ notebook = "IMDB"
  /\ batch = ScenarioBatch
  /\ \A i \in 1..Len(texts) : texts[i] # UnkId

\* C10: with min_freq = 1 every distinct token of the training corpus has a
\* non-negative integer id of its own: no two tokens share an id and none has
\* the id of the unknown or of the padding token.
C10_UniqueIds ==
  \A w \in CorpusTokens :
    /\ w \in DOMAIN vocab.stoi
    /\ vocab.stoi[w] \in Nat
    /\ vocab.stoi[w] \notin {vocab.stoi[UNK], vocab.stoi[PAD]}
    /\ \A u \in CorpusTokens : u # w => vocab.stoi[u] # vocab.stoi[w]

C10_Witness ==
  /\ Cardinality(CorpusTokens) = 3
  /\ \E u, w \in CorpusTokens : u # w /\ counter.n[u] = counter.n[w]
  /\ \E u, w \in CorpusTokens : counter.n[u] > counter.n[w]

\* C11: an empty input ends in an uncaught failure and returns nothing:
\* Collator.__call__ returns tensors only for a batch with at least one sample
\* and raises on a batch with none, leaving no labels, texts or offsets;
\* evaluate() returns an accuracy only for a dataloader that yields a sample
\* and raises (total_correct / 0) on one that yields none.
C11_EmptyInputRaises ==
  /\ pc = "collated" => Len(batch) > 0
  /\ pc = "evaluated" =>
       /\ dataloader # <<>>
       /\ accu_val # None
       /\ accu_val[2] > 0
  /\ (pc = "raised" /\ dataloader = NoLoader /\ embedded = None) =>
       /\ batch = <<>>
       /\ labels = NoTensor
       /\ texts = NoTensor
       /\ offsets = NoTensor
  /\ (pc = "raised" /\ dataloader # NoLoader) =>
       /\ dataloader = <<>>
       /\ accu_val = None

C11_Witness ==
  /\ pc = "raised"
  /\ batch = <<>>
  /\ dataloader = NoLoader
  /\ embedded = None
  /\ texts = NoTensor

\* the ids text_pipeline gives for sample i of the batch
SampleIds(i) == TextPipeline(notebook, vocab, batch[i].text)

\* two quotients kept as pairs are the same number
RatEq(a, b) == a[1] * b[2] = b[1] * a[2]

\* C12: the embedding-bag stage gives one vector per sample; for a sample
\* with at least one token it is the mean of the table rows of exactly the
\* ids of that sample, and for a sample of a single token it is that token's
\* row itself.
C12_BagIsSpanMean ==
  pc = "embedded" =>
    /\ Len(embedded) = Len(batch)
    /\ \A i \in 1..Len(batch) : \A k \in 1..EmbedDim :
         TokenCount(i) > 0 =>
           RatEq(embedded[i][k],
                 <<VecSum(weight, SampleIds(i))[k], TokenCount(i)>>)
    /\ \A i \in 1..Len(batch) : \A k \in 1..EmbedDim :
         TokenCount(i) = 1 =>
           embedded[i][k] = <<weight[SampleIds(i)[1] + 1][k], 1>>

C12_Witness ==
  /\ pc = "embedded"
  /\ Len(batch) = 1
  /\ Len(texts) = 1
  /\ offsets = <<0>>
  /\ texts[1] # UnkId
  /\ \A k \in 1..EmbedDim : embedded[1][k] = <<weight[texts[1] + 1][k], 1>>

\* C15: every id of the flattened buffer Collator.__call__ returns, unseen
\* tokens included, is in [0, len(vocab)) and every offset is in
\* [0, length of the buffer]; the embedding table has len(vocab) rows, so
\* that no lookup of forward() is out of range and none fails.
C15_IdsAndOffsetsInRange ==
  /\ pc \in {"collated", "embedded"} =>
       /\ \A i \in 1..Len(texts) : texts[i] \in 0..(VocabLen(vocab) - 1)
       /\ \A i \in 1..Len(offsets) : offsets[i] \in 0..Len(texts)
  /\ ~(pc = "raised" /\ embedded = NoTensor)
  /\ pc = "embedded" =>
       /\ Len(weight) = VocabLen(vocab)
       /\ \A i \in 1..Len(texts) : texts[i] + 1 \in DOMAIN weight

C15_Witness ==
  /\ pc = "embedded"
  /\ VocabLen(vocab) > Len(Specials)
  /\ \E i \in 1..Len(texts) : texts[i] = UnkId
  /\ \E i \in 1..Len(texts) : texts[i] = VocabLen(vocab) - 1
  /\ Len(offsets) >= 2
  /\ offsets[Len(offsets)] = Len(texts)

(***************************************************************************)
(* The label cells of the AG News notebook: num_class is counted over the  *)
(* training split, LabelPipeline decodes the labels of the dataset.  Every *)
(* one of the four AG News classes occurs in the training split.           *)
(***************************************************************************)
\* len(set([label for (label, text) in train_iter]))
NumClass(ls) == Cardinality({ ls[i] : i \in 1..Len(ls) })

\* the training splits of at most MaxTrainLabels samples
AGTrainLabels ==
  { ls \in SeqsOf(AGLabels, NumAGClasses, MaxTrainLabels) :
      { ls[i] : i \in 1..Len(ls) } = AGLabels }

InitLabels ==
  /\ notebook = "AG_NEWS"
  /\ train_texts = <<>>
  /\ counter = EmptyCounter
  /\ vocab = BuildVocab(counter)
  /\ pc = "idle"
  /\ CallsIdle
  /\ TrainIdle
  /\ train_labels \in AGTrainLabels
  /\ num_class = NumClass(train_labels)
  /\ label_in = None
  /\ class_id = None

\* LabelPipeline()(label) on the label of a sample of the dataset
Decode(l) ==
  /\ pc = "idle"
  /\ pc' = "decoded"
  /\ label_in' = <<l>>
  /\ class_id' = <<LabelPipeline(notebook, l)>>
  /\ UNCHANGED <<train_labels, num_class, collVars, trainVars, modelVars>>

\* the call has returned; the next sample is decoded
NextLabel ==
  /\ pc = "decoded"
  /\ pc' = "idle"
  /\ label_in' = None
  /\ class_id' = None
  /\ UNCHANGED <<train_labels, num_class, collVars, trainVars, modelVars>>

NextLabels ==
  \/ \E l \in AGLabels : Decode(l)
  \/ NextLabel

SpecLabels == InitLabels /\ [][NextLabels]_vars

\* C5: every label of the AG News dataset decodes (int(label) - 1) to a class
\* id in [0, num_class), num_class being the number of distinct labels of the
\* training split.
C5_ClassIdInRange ==
  pc = "decoded" => (0 <= class_id[1] /\ class_id[1] < num_class)

C5_Witness ==
  /\ pc = "decoded"
  /\ label_in = <<NumAGClasses>>
  /\ class_id = <<num_class - 1>>
  /\ Len(train_labels) > NumAGClasses

(***************************************************************************)
(* The training cell and the test cell of the AG News notebook.            *)
(***************************************************************************)
EPOCHS == 10

LR == 5

\* max_norm of clip_grad_norm_, 0.1, in tenths
ClipNorm == 1

\* label.size(0) of the batches of the three DataLoaders
TrainBatchSizes == ChunkSizes(NumTrainBatches * BatchSize, BatchSize)

ValidBatchSizes == ChunkSizes(NumValid, BatchSize)

TestBatchSizes == ChunkSizes(NumTest, BatchSize)

\* an accuracy total_correct / total_count is kept as the pair of the two
Gt(a, b) == a[1] * b[2] > b[1] * a[2]

Min(a, b) == IF a < b THEN a ELSE b

RECURSIVE Pow10(_)
Pow10(n) == IF n = 0 THEN 1 ELSE 10 * Pow10(n - 1)

\* StepLR(optimizer, 1.0, gamma=0.1): lr = LR * 0.1 ^ last_epoch, as the
\* pair <<numerator, denominator>>
Lr(le) == <<LR, Pow10(le)>>

InitTrain ==
  /\ notebook = "AG_NEWS"
  /\ train_texts = <<>>
  /\ counter = EmptyCounter
  /\ vocab = BuildVocab(counter)
  /\ CallsIdle
  /\ LabelsIdle
  /\ TrainIdle
  /\ pc = "loop"

\* the locals of train() before the call and after its return
TrainLocalsGone ==
  /\ idx' = 0
  /\ predited_label' = Unbound
  /\ loss' = Unbound
  /\ total_correct' = 0
  /\ total_count' = 0

\* mutant: range(1, EPOCHS)
LoopHeadShort ==
  /\ pc = "loop"
  /\ IF epoch < EPOCHS - 1
       THEN epoch' = epoch + 1 /\ pc' = "train"
       ELSE epoch' = epoch /\ pc' = "after_loop"
  /\ UNCHANGED <<accu_val, total_accu, last_epoch, train_passes, valid_evals,
                 test_evals, accu_test, best_seen, lower_epochs>>
  /\ UNCHANGED <<batchVars, mode, printed, collVars, labelVars, modelVars>>

\* for epoch in range(1, EPOCHS + 1):
LoopHead ==
  /\ pc = "loop"
  /\ IF epoch < EPOCHS
       THEN epoch' = epoch + 1 /\ pc' = "train"
       ELSE epoch' = epoch /\ pc' = "after_loop"
  /\ UNCHANGED <<accu_val, total_accu, last_epoch, train_passes, valid_evals,
                 test_evals, accu_test, best_seen, lower_epochs>>
  /\ UNCHANGED <<batchVars, mode, printed, collVars, labelVars, modelVars>>

\* train(): model.train(); total_correct, total_count = 0, 0
TrainEnter ==
  /\ pc = "train"
  /\ pc' = "batch"
  /\ mode' = "train"
  /\ total_correct' = 0
  /\ total_count' = 0
  /\ idx' = -1
  /\ opt_steps' = 0
  /\ trace' = <<>>
  /\ UNCHANGED <<grad, predited_label, loss, stepped>>
  /\ UNCHANGED <<loopVars, printed, collVars, labelVars, modelVars>>

\* for idx, (label, text, offsets) in enumerate(dataloader): the next batch,
\* or the return of train() when the DataLoader is exhausted
BatchHead ==
  /\ pc = "batch"
  /\ IF idx + 1 < Len(TrainBatchSizes)
       THEN /\ idx' = idx + 1
            /\ pc' = "zero_grad"
            /\ trace' = <<>>
            /\ UNCHANGED <<predited_label, loss, total_correct, total_count,
                           train_passes>>
       ELSE /\ TrainLocalsGone
            /\ pc' = "evaluate"
            /\ train_passes' = train_passes + 1
            /\ UNCHANGED trace
  /\ UNCHANGED <<epoch, accu_val, total_accu, last_epoch, valid_evals,
                 test_evals, accu_test, best_seen, lower_epochs>>
  /\ UNCHANGED <<grad, stepped, opt_steps, mode, printed, collVars, labelVars, modelVars>>

\* mutant: the gradients are not cleared
ZeroGradMissing ==
  /\ pc = "zero_grad"
  /\ pc' = "forward"
  /\ trace' = Append(trace, "zero_grad")
  /\ UNCHANGED <<grad, idx, predited_label, loss, stepped, total_correct,
                 total_count, opt_steps>>
  /\ UNCHANGED <<loopVars, mode, printed, collVars, labelVars, modelVars>>

\* optimizer.zero_grad()
ZeroGrad ==
  /\ pc = "zero_grad"
  /\ pc' = "forward"
  /\ grad' = [passes |-> 0, norm |-> 0, clipped |-> FALSE]
  /\ trace' = Append(trace, "zero_grad")
  /\ UNCHANGED <<idx, predited_label, loss, stepped, total_correct,
                 total_count, opt_steps>>
  /\ UNCHANGED <<loopVars, mode, printed, collVars, labelVars, modelVars>>

\* predited_label = model(text, offsets): any number of rows may be right
Forward ==
  /\ pc = "forward"
  /\ pc' = "loss"
  /\ \E c \in 0..TrainBatchSizes[idx + 1] :
       predited_label' = [batch |-> idx, correct |-> c]
  /\ trace' = Append(trace, "forward")
  /\ UNCHANGED <<idx, grad, loss, stepped, total_correct, total_count,
                 opt_steps>>
  /\ UNCHANGED <<loopVars, mode, printed, collVars, labelVars, modelVars>>

\* loss = loss_fn(predited_label, label)
Loss ==
  /\ pc = "loss"
  /\ pc' = "backward"
  /\ loss' = [batch |-> predited_label.batch]
  /\ trace' = Append(trace, "loss")
  /\ UNCHANGED <<idx, grad, predited_label, stepped, total_correct,
                 total_count, opt_steps>>
  /\ UNCHANGED <<loopVars, mode, printed, collVars, labelVars, modelVars>>

\* loss.backward(): the gradient of this loss is added to .grad
Backward ==
  /\ pc = "backward"
  /\ pc' = "clip"
  /\ LET old == IF grad = Unbound
                  THEN [passes |-> 0, norm |-> 0, clipped |-> FALSE]
                  ELSE grad
     IN  \E n \in 0..MaxGradNorm :
           grad' = [passes  |-> old.passes + 1,
                    norm    |-> old.norm + n,
                    clipped |-> FALSE]
  /\ trace' = Append(trace, "backward")
  /\ UNCHANGED <<idx, predited_label, loss, stepped, total_correct,
                 total_count, opt_steps>>
  /\ UNCHANGED <<loopVars, mode, printed, collVars, labelVars, modelVars>>

\* torch.nn.utils.clip_grad_norm_(model.parameters(), 0.1)
ClipGradNorm ==
  /\ pc = "clip"
  /\ pc' = "step"
  /\ grad' = [grad EXCEPT !.norm = Min(grad.norm, ClipNorm),
                          !.clipped = TRUE]
  /\ trace' = Append(trace, "clip")
  /\ UNCHANGED <<idx, predited_label, loss, stepped, total_correct,
                 total_count, opt_steps>>
  /\ UNCHANGED <<loopVars, mode, printed, collVars, labelVars, modelVars>>

\* optimizer.step()
OptimizerStep ==
  /\ pc = "step"
  /\ pc' = "account"
  /\ stepped' = grad
  /\ opt_steps' = opt_steps + 1
  /\ trace' = Append(trace, "step")
  /\ UNCHANGED <<idx, grad, predited_label, loss, total_correct, total_count>>
  /\ UNCHANGED <<loopVars, mode, printed, collVars, labelVars, modelVars>>

\* total_correct += (predited_label.argmax(1) == label).sum().item()
\* total_count += label.size(0)
Account ==
  /\ pc = "account"
  /\ pc' = "log"
  /\ total_correct' = total_correct + predited_label.correct
  /\ total_count' = total_count + TrainBatchSizes[idx + 1]
  /\ UNCHANGED <<idx, grad, predited_label, loss, stepped, trace, opt_steps>>
  /\ UNCHANGED <<loopVars, mode, printed, collVars, labelVars, modelVars>>

\* mutant: the counters run on after a log line
LogNoReset ==
  /\ pc = "log"
  /\ pc' = "batch"
  /\ IF idx % log_interval = 0 /\ idx > 0
       THEN printed' = [kind |-> "train", epoch |-> epoch, idx |-> idx,
                        accuracy |-> <<total_correct, total_count>>]
       ELSE UNCHANGED printed
  /\ UNCHANGED <<idx, grad, predited_label, loss, stepped, trace, opt_steps,
                 total_correct, total_count>>
  /\ UNCHANGED <<loopVars, mode, collVars, labelVars, modelVars>>

\* if idx % log_interval == 0 and idx > 0: print the running accuracy and
\* reset both counters
Log ==
  /\ pc = "log"
  /\ pc' = "batch"
  /\ IF idx % log_interval = 0 /\ idx > 0
       THEN /\ printed' = [kind |-> "train", epoch |-> epoch, idx |-> idx,
                           accuracy |-> <<total_correct, total_count>>]
            /\ total_correct' = 0
            /\ total_count' = 0
       ELSE UNCHANGED <<printed, total_correct, total_count>>
  /\ UNCHANGED <<idx, grad, predited_label, loss, stepped, trace, opt_steps>>
  /\ UNCHANGED <<loopVars, mode, collVars, labelVars, modelVars>>

\* accu_val = evaluate(valid_dataloader, model)
EvaluateValid ==
  /\ pc = "evaluate"
  /\ mode' = "eval"
  /\ dataloader' = ValidBatchSizes
  /\ \/ /\ \E r \in EvaluateReturns(ValidBatchSizes) : accu_val' = r
        /\ valid_evals' = valid_evals + 1
        /\ pc' = "schedule"
     \/ /\ EvaluateRaises(ValidBatchSizes)
        /\ pc' = "raised"
        /\ UNCHANGED <<accu_val, valid_evals>>
  /\ UNCHANGED <<epoch, total_accu, last_epoch, train_passes, test_evals,
                 accu_test, best_seen, lower_epochs>>
  /\ UNCHANGED <<batchVars, printed, collVars, labelVars, weight, embedded>>

\* mutant: total_accu takes the accuracy of the epoch on both branches
ScheduleKeepsLatest ==
  /\ pc = "schedule"
  /\ pc' = "report"
  /\ total_accu' = accu_val
  /\ IF total_accu # None /\ Gt(total_accu, accu_val)
       THEN last_epoch' = last_epoch + 1
       ELSE UNCHANGED last_epoch
  /\ UNCHANGED <<epoch, accu_val, train_passes, valid_evals, test_evals,
                 accu_test, best_seen, lower_epochs>>
  /\ UNCHANGED <<batchVars, mode, printed, collVars, labelVars, modelVars>>

\* mutant: the comparison is >=
ScheduleOnTie ==
  /\ pc = "schedule"
  /\ pc' = "report"
  /\ IF total_accu # None /\ ~Gt(accu_val, total_accu)
       THEN last_epoch' = last_epoch + 1 /\ UNCHANGED total_accu
       ELSE total_accu' = accu_val /\ UNCHANGED last_epoch
  /\ UNCHANGED <<epoch, accu_val, train_passes, valid_evals, test_evals,
                 accu_test, best_seen, lower_epochs>>
  /\ UNCHANGED <<batchVars, mode, printed, collVars, labelVars, modelVars>>

\* if total_accu is not None and total_accu > accu_val: scheduler.step()
\* else: total_accu = accu_val
Schedule ==
  /\ pc = "schedule"
  /\ pc' = "report"
  /\ IF total_accu # None /\ Gt(total_accu, accu_val)
       THEN last_epoch' = last_epoch + 1 /\ UNCHANGED total_accu
       ELSE total_accu' = accu_val /\ UNCHANGED last_epoch
  /\ UNCHANGED <<epoch, accu_val, train_passes, valid_evals, test_evals,
                 accu_test, best_seen, lower_epochs>>
  /\ UNCHANGED <<batchVars, mode, printed, collVars, labelVars, modelVars>>

\* the end-of-epoch print and writer.add_scalar; the epoch has ended
Report ==
  /\ pc = "report"
  /\ pc' = "loop"
  /\ printed' = [kind |-> "epoch", epoch |-> epoch, accuracy |-> accu_val]
  /\ best_seen' = IF best_seen = None \/ Gt(accu_val, best_seen)
                    THEN accu_val ELSE best_seen
  /\ lower_epochs' = IF best_seen # None /\ Gt(best_seen, accu_val)
                       THEN lower_epochs + 1 ELSE lower_epochs
  /\ UNCHANGED <<epoch, accu_val, total_accu, last_epoch, train_passes,
                 valid_evals, test_evals, accu_test>>
  /\ UNCHANGED <<batchVars, mode, collVars, labelVars, modelVars>>

\* writer.add_embedding, writer.flush, writer.close: the training cell ends
AfterLoop ==
  /\ pc = "after_loop"
  /\ pc' = "test"
  /\ UNCHANGED <<trainVars, collVars, labelVars, modelVars>>

\* accu_test = evaluate(test_dataloader, model), in the test cell
EvaluateTest ==
  /\ pc = "test"
  /\ mode' = "eval"
  /\ dataloader' = TestBatchSizes
  /\ \/ /\ \E r \in EvaluateReturns(TestBatchSizes) :
             /\ accu_test' = r
             /\ printed' = [kind |-> "test", accuracy |-> r]
        /\ test_evals' = test_evals + 1
        /\ pc' = "done"
     \/ /\ EvaluateRaises(TestBatchSizes)
        /\ pc' = "raised"
        /\ UNCHANGED <<accu_test, test_evals, printed>>
  /\ UNCHANGED <<epoch, accu_val, total_accu, last_epoch, train_passes,
                 valid_evals, best_seen, lower_epochs>>
  /\ UNCHANGED <<batchVars, collVars, labelVars, weight, embedded>>

NextTrain ==
  \/ LoopHead
  \/ TrainEnter
  \/ BatchHead
  \/ ZeroGrad
  \/ Forward
  \/ Loss
  \/ Backward
  \/ ClipGradNorm
  \/ OptimizerStep
  \/ Account
  \/ Log
  \/ EvaluateValid
  \/ Schedule
  \/ Report
  \/ AfterLoop
  \/ EvaluateTest

SpecTrain == InitTrain /\ [][NextTrain]_vars

\* the cells run one statement after the other until the last one
FairSpecTrain == SpecTrain /\ WF_vars(NextTrain)

(***************************************************************************)
(* Properties of the training cell.                                        *)
(***************************************************************************)
\* the step at the end of an epoch that compares accu_val with the best
ScheduleStep == pc = "schedule" /\ pc' = "report"

\* the learning rate was multiplied by gamma = 0.1 in the step
LrDecayed == Lr(last_epoch')[2] = 10 * Lr(last_epoch)[2]

LrKept == Lr(last_epoch') = Lr(last_epoch)

\* accuracy a is lower than or equal to accuracy b
Leq(a, b) == a[1] * b[2] <= b[1] * a[2]

\* C7 as stated: after the validation pass of an epoch, an accuracy lower
\* than or equal to the best of the earlier epochs decays the learning rate
\* and leaves the recorded best; only a strictly higher one (or the first
\* epoch's) is recorded as the new best, with no decay.
C7_DecayUnlessHigher ==
  [][ScheduleStep =>
        IF best_seen # None /\ Leq(accu_val, best_seen)
          THEN LrDecayed /\ total_accu' = total_accu
          ELSE LrKept /\ total_accu' = accu_val]_vars

\* C7 amended: an accuracy strictly lower than the best of the earlier epochs
\* decays the learning rate and leaves the recorded best; otherwise (the first
\* epoch, a higher or an equal accuracy) it is recorded as the best, with no
\* decay.
C7_DecayOnlyIfLower ==
  [][ScheduleStep =>
        IF best_seen # None /\ Gt(best_seen, accu_val)
          THEN LrDecayed /\ total_accu' = total_accu /\ total_accu = best_seen
          ELSE LrKept /\ total_accu' = accu_val]_vars

\* an epoch has ended whose accuracy equalled the best so far, with no decay
\* although an earlier epoch had decayed
C7_Witness ==
  /\ pc = "report"
  /\ epoch >= 3
  /\ best_seen # None
  /\ accu_val = best_seen
  /\ total_accu = accu_val
  /\ last_epoch = 1

\* the calls of one batch of train(), in the order of the source
StepOrder == <<"zero_grad", "forward", "loss", "backward", "clip", "step">>

\* C8: for every batch of every epoch train() clears the gradients, predicts,
\* computes the loss of that prediction, backpropagates, clips the gradient
\* norm to 0.1 and steps the optimizer, in this order and once each; every
\* optimizer step is applied to gradients cleared at the start of the same
\* batch (one backward pass in them) and clipped.
C8_BatchStepOrder ==
  /\ trace = SubSeq(StepOrder, 1, Len(trace))
  /\ pc \in {"account", "log"} => trace = StepOrder
  /\ pc \in {"account", "log"} =>
       /\ predited_label.batch = idx
       /\ loss.batch = idx
       /\ opt_steps = idx + 1
  /\ pc = "evaluate" => opt_steps = Len(TrainBatchSizes)
  /\ stepped # Unbound =>
       /\ stepped.passes = 1
       /\ stepped.clipped
       /\ stepped.norm <= ClipNorm

C8_Witness ==
  /\ pc = "account"
  /\ epoch = 2
  /\ idx = Len(TrainBatchSizes) - 1
  /\ trace = StepOrder
  /\ stepped.norm = ClipNorm

\* what holds of the counters of the run at every moment
C9_EpochsThenTest ==
  /\ valid_evals <= train_passes
  /\ train_passes <= valid_evals + 1
  /\ train_passes <= EPOCHS
  /\ pc \in {"loop", "train", "batch"} =>
       (train_passes = valid_evals /\ valid_evals = epoch - (IF pc = "loop" THEN 0 ELSE 1))
  /\ test_evals <= 1
  /\ (test_evals > 0 \/ pc = "test") =>
       (epoch = EPOCHS /\ train_passes = EPOCHS /\ valid_evals = EPOCHS)
  /\ pc = "done" => test_evals = 1

\* C9: the run terminates, after exactly EPOCHS epochs of one training pass
\* and one validation evaluation each, and only then one evaluation of the
\* test split; the test split is never evaluated before.
C9_RunTerminates == <>(pc = "done") /\ []C9_EpochsThenTest

C9_Witness ==
  /\ pc = "done"
  /\ test_evals = 1
  /\ train_passes = EPOCHS
  /\ valid_evals = EPOCHS
  /\ last_epoch > 0

\* the step of train() that prints the running accuracy or passes
LogStep == pc = "log" /\ pc' = "batch"

RECURSIVE SamplesOf(_, _)
\* label.size(0) of the batches lo..hi of the training dataloader, added up
SamplesOf(lo, hi) ==
  IF lo > hi THEN 0 ELSE TrainBatchSizes[hi + 1] + SamplesOf(lo, hi - 1)

\* the batch index of the log point before the one at i, -1 if there is none
PrevLog(i) == IF i = log_interval THEN -1 ELSE i - log_interval

C14_BestSoFar ==
  /\ []((pc = "loop" /\ epoch >= 1) =>
          /\ total_accu # None
          /\ total_accu = best_seen
          /\ last_epoch = lower_epochs
          /\ last_epoch <= epoch - 1)
  /\ [](last_epoch <= EPOCHS - 1)
  /\ [][total_accu # None =>
          (total_accu' # None /\ ~Gt(total_accu, total_accu'))]_vars

C14_Witness ==
  /\ pc = "loop"
  /\ epoch = EPOCHS
  /\ last_epoch = EPOCHS - 1
  /\ lower_epochs = last_epoch
  /\ total_accu = best_seen
  /\ Gt(total_accu, accu_val)

=============================================================================
